---- MODULE Spec2Model ----
(***************************************************************************)
(* Model of src/src/main.py: the validators, the notifiers, the            *)
(* transaction logger, the Stripe and offline payment processors and the   *)
(* PaymentService that composes them.  Every handler is one action; the    *)
(* order of the steps a handler took is kept in last.steps.                *)
(***************************************************************************)
EXTENDS Integers, Sequences, FiniteSets, TLC

\* Number of calls made on the service in one behaviour.
MaxCalls == 2

(***************************************************************************)
(* Python values                                                           *)
(***************************************************************************)
\* Python's None in an Optional[str] field; str(None) is "None".
None == "None"
\* A missing object (contact_info = None, or an argument a call does not take).
Nothing == <<>>
\* Truth value of an Optional[str]: None and "" are falsy.
Truthy(s) == s # None /\ s # ""

(***************************************************************************)
(* Data model (main.py:13-30) and the inputs drawn from it                 *)
(***************************************************************************)
ContactInfo == [email : {None, "", "e@mail.com"}, phone : {None, "", "555"}]

CustomerData ==
    [name : {None, "", "John Doe", "Ann"},
     contact_info : ContactInfo \cup {Nothing},
     customer_id : {None, "cus_1"}]

PaymentData == [amount : (-2 .. 3) \cup {500}, source : {None, "", "tok_valid"}]

\* The customers and payments handed to the service's operations: the valid
\* ones, and one for each way of being invalid.
Customer(name, email, phone, customer_id) ==
    [name |-> name, contact_info |-> [email |-> email, phone |-> phone],
     customer_id |-> customer_id]

ServiceCustomers ==
    {Customer("John Doe", "e@mail.com", None, None),
     Customer("John Doe", None, "555", None),
     Customer("John Doe", None, "555", "cus_1"),
     Customer("", "e@mail.com", None, None),
     Customer("John Doe", None, None, None),
     [name |-> "John Doe", contact_info |-> Nothing, customer_id |-> None]}

ServicePayments ==
    {[amount |-> 500, source |-> "tok_valid"],
     [amount |-> 0, source |-> "tok_valid"],
     [amount |-> 500, source |-> ""]}

PaymentResponse(status, amount, transaction_id, message) ==
    [status |-> status, amount |-> amount,
     transaction_id |-> transaction_id, message |-> message]

\* A raised exception: its Python class and its message.
Raise(type, msg) == [type |-> type, msg |-> msg]
NoError == Nothing

(***************************************************************************)
(* Validators (main.py:32-56): the exception raised, or NoError            *)
(***************************************************************************)
\* Mutant: "and" for "or" in the contact check (main.py:41-44).
CustomerValidator_validate_and(customer_data) ==
    IF ~Truthy(customer_data.name)
    THEN Raise("ValueError", "Invalid customer data: missing name")
    ELSE IF customer_data.contact_info = Nothing
    THEN Raise("ValueError", "Invalid customer data: missing contact info")
    ELSE IF ~(Truthy(customer_data.contact_info.email)
              /\ Truthy(customer_data.contact_info.phone))
    THEN Raise("ValueError", "Invalid customer data: missing email and phone")
    ELSE NoError

CustomerValidator_validate(customer_data) ==
    IF ~Truthy(customer_data.name)
    THEN Raise("ValueError", "Invalid customer data: missing name")
    ELSE IF customer_data.contact_info = Nothing
    THEN Raise("ValueError", "Invalid customer data: missing contact info")
    ELSE IF ~(Truthy(customer_data.contact_info.email)
              \/ Truthy(customer_data.contact_info.phone))
    THEN Raise("ValueError", "Invalid customer data: missing email and phone")
    ELSE NoError

\* Mutant: "<" for "<=" in the amount check (main.py:54).
PaymentValidator_validate_accepts_zero(payment_data) ==
    IF ~Truthy(payment_data.source)
    THEN Raise("ValueError", "Invalid payment data: missing source")
    ELSE IF payment_data.amount < 0
    THEN Raise("ValueError", "Invalid payment data: amount must be positive")
    ELSE NoError

\* Mutant: the source check (main.py:51-53) left out.
PaymentValidator_validate_no_source_check(payment_data) ==
    IF payment_data.amount <= 0
    THEN Raise("ValueError", "Invalid payment data: amount must be positive")
    ELSE NoError

PaymentValidator_validate(payment_data) ==
    IF ~Truthy(payment_data.source)
    THEN Raise("ValueError", "Invalid payment data: missing source")
    ELSE IF payment_data.amount <= 0
    THEN Raise("ValueError", "Invalid payment data: amount must be positive")
    ELSE NoError

(***************************************************************************)
(* Notifiers (main.py:58-100)                                              *)
(***************************************************************************)
\* EmailNotifier and SmsNotifier only print; "custom" is any other
\* implementation of the Notifier protocol, whose dispatch may raise.
Notifiers == {"email", "sms", "custom"}

Notification(channel, to) == [channel |-> channel, to |-> to]

\* The notifications dispatched and the exception raised, if any.
EmailNotifier_send_confirmation(customer_data) ==
    [sent |-> <<Notification("email", customer_data.contact_info.email)>>,
     error |-> NoError]

SmsNotifier_send_confirmation(customer_data) ==
    [sent |-> <<Notification("sms", customer_data.contact_info.phone)>>,
     error |-> NoError]

CustomNotifier_send_confirmation(customer_data, fails) ==
    IF fails
    THEN [sent |-> <<>>, error |-> Raise("NotifierError", "dispatch failed")]
    ELSE [sent |-> <<Notification("custom", customer_data.name)>>,
          error |-> NoError]

Notifier_send_confirmation(notifier, customer_data, fails) ==
    CASE notifier = "email" -> EmailNotifier_send_confirmation(customer_data)
      [] notifier = "sms" -> SmsNotifier_send_confirmation(customer_data)
      [] OTHER -> CustomNotifier_send_confirmation(customer_data, fails)

(***************************************************************************)
(* TransactionLogger (main.py:102-129): the lines appended to              *)
(* transactions.log                                                        *)
(***************************************************************************)
\* Mutant: the "Transaction ID" line written whatever the id (main.py:113).
TransactionRecord_always_id(customer_data, payment_data, payment_response) ==
    <<customer_data.name \o " paid " \o ToString(payment_data.amount),
      "Payment status: " \o payment_response.status,
      "Transaction ID: " \o payment_response.transaction_id,
      "Message: " \o payment_response.message>>

TransactionRecord(customer_data, payment_data, payment_response) ==
    <<customer_data.name \o " paid " \o ToString(payment_data.amount),
      "Payment status: " \o payment_response.status>>
    \o (IF Truthy(payment_response.transaction_id)
        THEN <<"Transaction ID: " \o payment_response.transaction_id>>
        ELSE <<>>)
    \o <<"Message: " \o payment_response.message>>

RefundRecord(transaction_id, refund_response) ==
    <<"Refund processed for transaction " \o transaction_id,
      "Refund status: " \o refund_response.status,
      "Message: " \o refund_response.message>>

\* Mutant: every transaction logged as a success.
log_transaction_as_success(file, customer_data, payment_data, payment_response) ==
    file \o TransactionRecord(customer_data, payment_data,
                              [payment_response EXCEPT !.status = "success"])

\* Mutant: the file opened with mode "w" for "a" (main.py:109).
log_transaction_truncating(file, customer_data, payment_data, payment_response) ==
    TransactionRecord(customer_data, payment_data, payment_response)

log_transaction(file, customer_data, payment_data, payment_response) ==
    file \o TransactionRecord(customer_data, payment_data, payment_response)

\* Mutant: only a refund that succeeded is logged.
log_refund_success_only(file, transaction_id, refund_response) ==
    IF refund_response.status = "failed"
    THEN file
    ELSE file \o RefundRecord(transaction_id, refund_response)

log_refund(file, transaction_id, refund_response) ==
    file \o RefundRecord(transaction_id, refund_response)

\* The threads (or service instances) that log to the one transactions.log.
Threads == {"t1", "t2"}

\* io.DEFAULT_BUFFER_SIZE, the buffer of the file object open() returns
\* (main.py:109, 123): written text stays in it until it overflows or the
\* "with" block closes the file.
BufferSize == 8192

\* Bytes the lines take in the file, each with its "\n".
RECURSIVE Bytes(_)
Bytes(lines) ==
    IF lines = <<>> THEN 0 ELSE Len(Head(lines)) + 1 + Bytes(Tail(lines))

\* The file object of one "with open(...)" block: the record being written
\* (one line per write call), the write calls made and the buffered lines.
NotOpen == [pc |-> "idle", record |-> <<>>, written |-> 0, buffer |-> <<>>]

\* open("transactions.log", "a") at the start of a logger method.
open(record) == [pc |-> "open", record |-> record, written |-> 0, buffer |-> <<>>]

\* log_file.write(line): the line joins the buffer; a buffer that overflows
\* is written through to the file, which O_APPEND makes one atomic append.
write(f, file) ==
    LET pending == Append(f.buffer, f.record[f.written + 1]) IN
    IF Bytes(pending) > BufferSize
    THEN [f |-> [f EXCEPT !.written = @ + 1, !.buffer = <<>>],
          file |-> file \o pending]
    ELSE [f |-> [f EXCEPT !.written = @ + 1, !.buffer = pending], file |-> file]

\* The end of the "with" block: what is buffered is appended, the file closed.
close(f, file) ==
    [f |-> [f EXCEPT !.pc = "closed", !.buffer = <<>>], file |-> file \o f.buffer]

(***************************************************************************)
(* The Stripe backend, as StripePaymentProcessor uses it                   *)
(* (main.py:149-278).  Each API call is accepted or raises a StripeError.  *)
(***************************************************************************)
StripeErrors == {"Your card was declined."}
Accepted == "accepted"
ApiOutcomes == {Accepted} \cup StripeErrors

StripeInit ==
    [charges |-> <<>>, refunds |-> <<>>, customers |-> <<>>,
     attached |-> <<>>, defaults |-> <<>>, subscriptions |-> <<>>]

\* Identifier of the n-th object of a kind the backend creates.
StripeId(prefix, n) == prefix \o ToString(n)

\* What a processor operation yields: the backend after it, the response it
\* returns or the exception it lets out, and the API calls it made.
Result(stripe_, response, error, steps) ==
    [stripe |-> stripe_, response |-> response, error |-> error, steps |-> steps]

NoResponse == Nothing

\* An API call the backend rejects: the call, then the StripeError it raises.
StripeError(detail) == "StripeError: " \o detail
Rejected(api, detail) == <<api, StripeError(detail)>>

\* Mutant: a rejected charge is attempted a second time.
StripePaymentProcessor_process_transaction_retry(st, customer_data, payment_data, outcome) ==
    LET charge == [id |-> StripeId("ch_", Len(st.charges) + 1),
                   status |-> "succeeded",
                   amount |-> payment_data.amount,
                   source |-> payment_data.source,
                   description |-> "Charge for " \o customer_data.name]
    IN Result([st EXCEPT !.charges = Append(@, charge)],
              PaymentResponse(charge.status, charge.amount, charge.id,
                              "Payment successful"),
              NoError,
              IF outcome = Accepted THEN <<"stripe.Charge.create">>
              ELSE Rejected("stripe.Charge.create", outcome)
                       \o <<"stripe.Charge.create">>)

\* main.py:151-177
StripePaymentProcessor_process_transaction(st, customer_data, payment_data, outcome) ==
    IF outcome = Accepted
    THEN LET charge == [id |-> StripeId("ch_", Len(st.charges) + 1),
                        status |-> "succeeded",
                        amount |-> payment_data.amount,
                        source |-> payment_data.source,
                        description |-> "Charge for " \o customer_data.name]
         IN Result([st EXCEPT !.charges = Append(@, charge)],
                   PaymentResponse(charge.status, charge.amount, charge.id,
                                   "Payment successful"),
                   NoError, <<"stripe.Charge.create">>)
    ELSE Result(st,
                PaymentResponse("failed", payment_data.amount, None, outcome),
                NoError, Rejected("stripe.Charge.create", outcome))

\* The charge a transaction id names, if the backend holds it.
ChargesWithId(st, transaction_id) ==
    {i \in 1 .. Len(st.charges) : st.charges[i].id = transaction_id}

\* main.py:179-197
StripePaymentProcessor_refund_payment(st, transaction_id, outcome) ==
    IF outcome = Accepted
    THEN LET charge == st.charges[CHOOSE i \in ChargesWithId(st, transaction_id) : TRUE]
             refund == [id |-> StripeId("re_", Len(st.refunds) + 1),
                        status |-> "succeeded",
                        amount |-> charge.amount,
                        charge |-> transaction_id]
         IN Result([st EXCEPT !.refunds = Append(@, refund)],
                   PaymentResponse(refund.status, refund.amount, refund.id,
                                   "Refund successful"),
                   NoError, <<"stripe.Refund.create">>)
    ELSE Result(st, PaymentResponse("failed", 0, None, outcome),
                NoError, Rejected("stripe.Refund.create", outcome))

\* The backend refunds only a charge it holds.
RefundOutcomes(st, transaction_id) ==
    IF ChargesWithId(st, transaction_id) # {}
    THEN ApiOutcomes
    ELSE {"No such charge."} \cup StripeErrors

\* The API calls of recurring setup; the backend rejects at most one of them.
RecurringApis ==
    {"stripe.Customer.retrieve", "stripe.Customer.create",
     "stripe.PaymentMethod.retrieve", "stripe.PaymentMethod.attach",
     "stripe.Customer.modify", "stripe.Subscription.create"}
NoRejection == "none"

\* A helper's yield: the backend after it, the id it resolved, the exception
\* it raised and the API calls it made.
Step(st, id, error, steps) ==
    [stripe |-> st, id |-> id, error |-> error, steps |-> steps]

\* Mutant: the customer is created without the email check (main.py:246-247).
get_or_create_customer_no_email_check(st, customer_data, rejected, detail) ==
    IF Truthy(customer_data.customer_id)
    THEN IF rejected = "stripe.Customer.retrieve"
         THEN Step(st, None, Raise("StripeError", detail),
                   Rejected("stripe.Customer.retrieve", detail))
         ELSE Step(st, customer_data.customer_id, NoError,
                   <<"stripe.Customer.retrieve">>)
    ELSE IF customer_data.contact_info = Nothing
    THEN Step(st, None,
              Raise("AttributeError", "'NoneType' object has no attribute 'email'"),
              <<>>)
    ELSE IF rejected = "stripe.Customer.create"
    THEN Step(st, None, Raise("StripeError", detail),
              Rejected("stripe.Customer.create", detail))
    ELSE LET customer == [id |-> StripeId("cus_new_", Len(st.customers) + 1),
                          name |-> customer_data.name,
                          email |-> customer_data.contact_info.email]
         IN Step([st EXCEPT !.customers = Append(@, customer)], customer.id,
                 NoError, <<"stripe.Customer.create">>)

\* Mutant: a customer is created whether or not a customer_id is given.
get_or_create_customer_always_creates(st, customer_data, rejected, detail) ==
    IF customer_data.contact_info = Nothing
    THEN Step(st, None,
              Raise("AttributeError", "'NoneType' object has no attribute 'email'"),
              <<>>)
    ELSE IF ~Truthy(customer_data.contact_info.email)
    THEN Step(st, None, Raise("ValueError", "Email required for subscriptions"),
              <<>>)
    ELSE IF rejected = "stripe.Customer.create"
    THEN Step(st, None, Raise("StripeError", detail),
              Rejected("stripe.Customer.create", detail))
    ELSE LET customer == [id |-> StripeId("cus_new_", Len(st.customers) + 1),
                          name |-> customer_data.name,
                          email |-> customer_data.contact_info.email]
         IN Step([st EXCEPT !.customers = Append(@, customer)], customer.id,
                 NoError, <<"stripe.Customer.create">>)

\* main.py:238-252
get_or_create_customer(st, customer_data, rejected, detail) ==
    IF Truthy(customer_data.customer_id)
    THEN IF rejected = "stripe.Customer.retrieve"
         THEN Step(st, None, Raise("StripeError", detail),
                   Rejected("stripe.Customer.retrieve", detail))
         ELSE Step(st, customer_data.customer_id, NoError,
                   <<"stripe.Customer.retrieve">>)
    ELSE IF customer_data.contact_info = Nothing
    THEN Step(st, None,
              Raise("AttributeError", "'NoneType' object has no attribute 'email'"),
              <<>>)
    ELSE IF ~Truthy(customer_data.contact_info.email)
    THEN Step(st, None, Raise("ValueError", "Email required for subscriptions"),
              <<>>)
    ELSE IF rejected = "stripe.Customer.create"
    THEN Step(st, None, Raise("StripeError", detail),
              Rejected("stripe.Customer.create", detail))
    ELSE LET customer == [id |-> StripeId("cus_new_", Len(st.customers) + 1),
                          name |-> customer_data.name,
                          email |-> customer_data.contact_info.email]
         IN Step([st EXCEPT !.customers = Append(@, customer)], customer.id,
                 NoError, <<"stripe.Customer.create">>)

\* main.py:254-266
attach_payment_method(st, customer_id, payment_source, rejected, detail) ==
    IF rejected = "stripe.PaymentMethod.retrieve"
    THEN Step(st, None, Raise("StripeError", detail),
              Rejected("stripe.PaymentMethod.retrieve", detail))
    ELSE IF rejected = "stripe.PaymentMethod.attach"
    THEN Step(st, None, Raise("StripeError", detail),
              <<"stripe.PaymentMethod.retrieve">>
                  \o Rejected("stripe.PaymentMethod.attach", detail))
    ELSE Step([st EXCEPT !.attached =
                  Append(@, [payment_method |-> payment_source,
                             customer |-> customer_id])],
              payment_source, NoError,
              <<"stripe.PaymentMethod.retrieve", "stripe.PaymentMethod.attach">>)

\* main.py:268-278
set_default_payment_method(st, customer_id, payment_method_id, rejected, detail) ==
    IF rejected = "stripe.Customer.modify"
    THEN Step(st, None, Raise("StripeError", detail),
              Rejected("stripe.Customer.modify", detail))
    ELSE Step([st EXCEPT !.defaults =
                  Append(@, [customer |-> customer_id,
                             default_payment_method |-> payment_method_id])],
              None, NoError, <<"stripe.Customer.modify">>)

\* main.py:213-219
Subscription_create(st, customer_id, rejected, detail) ==
    IF rejected = "stripe.Subscription.create"
    THEN Step(st, None, Raise("StripeError", detail),
              Rejected("stripe.Subscription.create", detail))
    ELSE LET id == StripeId("sub_", Len(st.subscriptions) + 1)
         IN Step([st EXCEPT !.subscriptions =
                     Append(@, [id |-> id, customer |-> customer_id,
                                status |-> "active"])],
                 id, NoError, <<"stripe.Subscription.create">>)

\* Mutant: the StripeError is let through instead of being normalized.
except_StripeError_reraise(st, error, steps) == Result(st, NoResponse, error, steps)

\* main.py:229-236: a StripeError becomes a "failed" response; any other
\* exception leaves the method.
except_StripeError(st, error, steps) ==
    IF error.type = "StripeError"
    THEN Result(st, PaymentResponse("failed", 0, None, error.msg), NoError, steps)
    ELSE Result(st, NoResponse, error, steps)

\* main.py:199-236.  unit_amount is the price of the configured plan.
StripePaymentProcessor_setup_recurring_payment(st, customer_data, payment_data, rejected, detail, unit_amount) ==
    LET c == get_or_create_customer(st, customer_data, rejected, detail) IN
    IF c.error # NoError THEN except_StripeError(c.stripe, c.error, c.steps) ELSE
    LET a == attach_payment_method(c.stripe, c.id, payment_data.source,
                                   rejected, detail)
        s1 == c.steps \o a.steps IN
    IF a.error # NoError THEN except_StripeError(a.stripe, a.error, s1) ELSE
    LET d == set_default_payment_method(a.stripe, c.id, a.id, rejected, detail)
        s2 == s1 \o d.steps IN
    IF d.error # NoError THEN except_StripeError(d.stripe, d.error, s2) ELSE
    LET sub == Subscription_create(d.stripe, c.id, rejected, detail)
        s3 == s2 \o sub.steps IN
    IF sub.error # NoError THEN except_StripeError(sub.stripe, sub.error, s3) ELSE
    Result(sub.stripe,
           PaymentResponse("active", unit_amount, sub.id,
                           "Recurring payment setup successful"),
           NoError, s3)

\* Mutant: the response does not carry the payment's amount.
OfflinePaymentProcessor_process_transaction_zero_amount(customer_data, payment_data, uuid4) ==
    PaymentResponse("success", 0, uuid4, "Offline payment success")

\* Mutant: the transaction id is derived from the input, not from uuid4().
OfflinePaymentProcessor_process_transaction_fixed_id(customer_data, payment_data, uuid4) ==
    PaymentResponse("success", payment_data.amount,
                    "offline-" \o customer_data.name, "Offline payment success")

\* main.py:280-289.  uuid4 is the value uuid.uuid4() produced.
OfflinePaymentProcessor_process_transaction(customer_data, payment_data, uuid4) ==
    PaymentResponse("success", payment_data.amount, uuid4,
                    "Offline payment success")

Uuid(n) == "uuid-" \o ToString(n)

(***************************************************************************)
(* PaymentService (main.py:291-325)                                        *)
(***************************************************************************)
\* A service instance: payment_processor, notifier and the two optional
\* capabilities, fixed at construction.  The compositions are those of
\* main.py:338-354 (Stripe with e-mail, offline with SMS), each also with a
\* custom notifier, under every choice of the optional capabilities.
Services ==
    {s \in [payment_processor : {"stripe", "offline"},
            notifier : Notifiers,
            recurring_processor : {None, "stripe"},
            refund_processor : {None, "stripe"}] :
        \/ s.notifier = "custom"
        \/ s.payment_processor = "stripe" /\ s.notifier = "email"
        \/ s.payment_processor = "offline" /\ s.notifier = "sms"}

VARIABLES
    svc,        \* the PaymentService instance under call
    log,        \* the lines of transactions.log
    stripe,     \* the objects the Stripe backend holds
    notified,   \* the confirmations dispatched
    uuids,      \* how many values uuid.uuid4() has produced
    last,       \* the last call: its arguments, its end and the steps it took
    ncalls,     \* calls made so far
    writers     \* per thread, the log file object it holds open

vars == <<svc, log, stripe, notified, uuids, last, ncalls, writers>>

\* The world a call acts on.
World == [log |-> log, stripe |-> stripe, notified |-> notified, uuids |-> uuids]

\* What the delegated processor operation yielded, when the call got there.
Delegate(response, error) == [response |-> response, error |-> error]
NotDelegated == Nothing

\* How a call ends: the world after it, the response returned or the
\* exception raised, the steps taken and what the processor yielded.
Returned(w, response, steps, processor) ==
    [world |-> w, outcome |-> "returned", response |-> response,
     error |-> NoError, steps |-> steps, processor |-> processor]
Raised(w, error, steps, processor) ==
    [world |-> w, outcome |-> "raised", response |-> NoResponse,
     error |-> error, steps |-> steps, processor |-> processor]

\* main.py:304-306: the call on self.payment_processor.
payment_processor_process_transaction(service, w, customer_data, payment_data, outcome) ==
    IF service.payment_processor = "stripe"
    THEN LET r == StripePaymentProcessor_process_transaction(
                      w.stripe, customer_data, payment_data, outcome)
         IN [world |-> [w EXCEPT !.stripe = r.stripe],
             response |-> r.response, steps |-> r.steps]
    ELSE [world |-> [w EXCEPT !.uuids = @ + 1],
          response |-> OfflinePaymentProcessor_process_transaction(
                           customer_data, payment_data, Uuid(w.uuids + 1)),
          steps |-> <<"uuid.uuid4">>]

\* Mutant: the payment is validated before the customer.
PaymentService_process_transaction_payment_first(service, w, customer_data, payment_data, env) ==
    LET e2 == PaymentValidator_validate(payment_data)
        t2 == <<"payment_validator.validate">> IN
    IF e2 # NoError THEN Raised(w, e2, t2, NotDelegated) ELSE
    LET e1 == CustomerValidator_validate(customer_data)
        t1 == Append(t2, "customer_validator.validate") IN
    IF e1 # NoError THEN Raised(w, e1, t1, NotDelegated) ELSE
    LET r == payment_processor_process_transaction(
                 service, w, customer_data, payment_data, env.charge)
        t3 == Append(t1, "payment_processor.process_transaction") \o r.steps
        n == Notifier_send_confirmation(service.notifier, customer_data,
                                        env.notifier_fails)
        w4 == [r.world EXCEPT !.notified = @ \o n.sent]
        t4 == Append(t3, "notifier.send_confirmation")
        d == Delegate(r.response, NoError) IN
    IF n.error # NoError
    THEN Raised(w4, n.error, Append(t4, n.error.type), d) ELSE
    Returned([w4 EXCEPT !.log = log_transaction(@, customer_data, payment_data,
                                                r.response)],
             r.response, Append(t4, "logger.log_transaction"), d)

\* main.py:301-311
PaymentService_process_transaction(service, w, customer_data, payment_data, env) ==
    LET e1 == CustomerValidator_validate(customer_data)
        t1 == <<"customer_validator.validate">> IN
    IF e1 # NoError THEN Raised(w, e1, t1, NotDelegated) ELSE
    LET e2 == PaymentValidator_validate(payment_data)
        t2 == Append(t1, "payment_validator.validate") IN
    IF e2 # NoError THEN Raised(w, e2, t2, NotDelegated) ELSE
    LET r == payment_processor_process_transaction(
                 service, w, customer_data, payment_data, env.charge)
        t3 == Append(t2, "payment_processor.process_transaction") \o r.steps
        n == Notifier_send_confirmation(service.notifier, customer_data,
                                        env.notifier_fails)
        w4 == [r.world EXCEPT !.notified = @ \o n.sent]
        t4 == Append(t3, "notifier.send_confirmation")
        d == Delegate(r.response, NoError) IN
    IF n.error # NoError
    THEN Raised(w4, n.error, Append(t4, n.error.type), d) ELSE
    Returned([w4 EXCEPT !.log = log_transaction(@, customer_data, payment_data,
                                                r.response)],
             r.response, Append(t4, "logger.log_transaction"), d)

\* Mutant: the capability check never fires.
not_configured_never(processor) == FALSE

\* main.py:314, 321: "if not self.<capability>_processor".
not_configured(processor) == ~Truthy(processor)

\* main.py:313-318
PaymentService_process_refund(service, w, transaction_id, env) ==
    IF not_configured(service.refund_processor)
    THEN Raised(w, Raise("Exception", "This processor does not suppot refunds"),
                <<>>, NotDelegated)
    ELSE
    LET r == StripePaymentProcessor_refund_payment(w.stripe, transaction_id,
                                                   env.refund)
        w1 == [w EXCEPT !.stripe = r.stripe] IN
    Returned([w1 EXCEPT !.log = log_refund(@, transaction_id, r.response)],
             r.response,
             <<"refund_processor.refund_payment">> \o r.steps
                 \o <<"logger.log_refund">>,
             Delegate(r.response, NoError))

\* Mutant: setup_recurring runs the two validators before delegating, as
\* process_transaction does.
PaymentService_setup_recurring_validated(service, w, customer_data, payment_data, env) ==
    IF not_configured(service.recurring_processor)
    THEN Raised(w, Raise("Exception", "This processor does not suppot recurring"),
                <<>>, NotDelegated)
    ELSE
    LET e1 == CustomerValidator_validate(customer_data)
        v1 == <<"customer_validator.validate">> IN
    IF e1 # NoError THEN Raised(w, e1, v1, NotDelegated) ELSE
    LET e2 == PaymentValidator_validate(payment_data)
        v2 == Append(v1, "payment_validator.validate") IN
    IF e2 # NoError THEN Raised(w, e2, v2, NotDelegated) ELSE
    LET r == StripePaymentProcessor_setup_recurring_payment(
                 w.stripe, customer_data, payment_data,
                 env.rejected, env.detail, env.unit_amount)
        w1 == [w EXCEPT !.stripe = r.stripe]
        t1 == v2 \o <<"recurring_processor.setup_recurring_payment">> \o r.steps
        d == Delegate(r.response, r.error) IN
    IF r.error # NoError THEN Raised(w1, r.error, t1, d) ELSE
    Returned([w1 EXCEPT !.log = log_transaction(@, customer_data, payment_data,
                                                r.response)],
             r.response, Append(t1, "logger.log_transaction"), d)

\* main.py:320-325
PaymentService_setup_recurring(service, w, customer_data, payment_data, env) ==
    IF not_configured(service.recurring_processor)
    THEN Raised(w, Raise("Exception", "This processor does not suppot recurring"),
                <<>>, NotDelegated)
    ELSE
    LET r == StripePaymentProcessor_setup_recurring_payment(
                 w.stripe, customer_data, payment_data,
                 env.rejected, env.detail, env.unit_amount)
        w1 == [w EXCEPT !.stripe = r.stripe]
        t1 == <<"recurring_processor.setup_recurring_payment">> \o r.steps
        d == Delegate(r.response, r.error) IN
    IF r.error # NoError THEN Raised(w1, r.error, t1, d) ELSE
    Returned([w1 EXCEPT !.log = log_transaction(@, customer_data, payment_data,
                                                r.response)],
             r.response, Append(t1, "logger.log_transaction"), d)

(***************************************************************************)
(* The state machine                                                       *)
(***************************************************************************)
\* The price of the plan STRIPE_PRICE_ID names (main.py:203, 222).
UnitAmounts == {1500}

\* Transaction ids a caller asks to refund: the charges made, and one the
\* backend does not hold.
RefundableIds == {stripe.charges[i].id : i \in 1 .. Len(stripe.charges)}
                 \cup {"ch_unknown"}

NoCall ==
    [op |-> "none", customer |-> Nothing, payment |-> Nothing,
     transaction_id |-> None, outcome |-> "none", response |-> NoResponse,
     error |-> NoError, steps |-> <<>>, processor |-> NotDelegated,
     pre |-> Nothing]

Init ==
    /\ svc \in Services
    /\ log = <<>>
    /\ stripe = StripeInit
    /\ notified = <<>>
    /\ uuids = 0
    /\ last = NoCall
    /\ ncalls = 0
    /\ writers = [t \in Threads |-> NotOpen]

\* One call made and ended: the world it leaves and the record of the call.
Call(op, customer_data, payment_data, transaction_id, end) ==
    /\ ncalls' = ncalls + 1
    /\ log' = end.world.log
    /\ stripe' = end.world.stripe
    /\ notified' = end.world.notified
    /\ uuids' = end.world.uuids
    /\ last' = [op |-> op, customer |-> customer_data, payment |-> payment_data,
                transaction_id |-> transaction_id, outcome |-> end.outcome,
                response |-> end.response, error |-> end.error,
                steps |-> end.steps, processor |-> end.processor,
                pre |-> World]
    /\ UNCHANGED <<svc, writers>>

ProcessTransaction ==
    /\ ncalls < MaxCalls
    /\ \E customer_data \in ServiceCustomers, payment_data \in ServicePayments,
          charge \in ApiOutcomes, notifier_fails \in BOOLEAN :
        Call("process_transaction", customer_data, payment_data, None,
             PaymentService_process_transaction(
                 svc, World, customer_data, payment_data,
                 [charge |-> charge, notifier_fails |-> notifier_fails]))

ProcessRefund ==
    /\ ncalls < MaxCalls
    /\ \E transaction_id \in RefundableIds :
        \E refund \in RefundOutcomes(stripe, transaction_id) :
            Call("process_refund", Nothing, Nothing, transaction_id,
                 PaymentService_process_refund(svc, World, transaction_id,
                                               [refund |-> refund]))

SetupRecurring ==
    /\ ncalls < MaxCalls
    /\ \E customer_data \in ServiceCustomers, payment_data \in ServicePayments,
          rejected \in RecurringApis \cup {NoRejection}, detail \in StripeErrors,
          unit_amount \in UnitAmounts :
        Call("setup_recurring", customer_data, payment_data, None,
             PaymentService_setup_recurring(
                 svc, World, customer_data, payment_data,
                 [rejected |-> rejected, detail |-> detail,
                  unit_amount |-> unit_amount]))

\* The validators called on their own.
ValidateCustomer ==
    /\ ncalls < MaxCalls
    /\ \E customer_data \in CustomerData :
        LET e == CustomerValidator_validate(customer_data) IN
        Call("CustomerValidator.validate", customer_data, Nothing, None,
             IF e = NoError THEN Returned(World, NoResponse, <<>>, NotDelegated)
             ELSE Raised(World, e, <<>>, NotDelegated))

ValidatePayment ==
    /\ ncalls < MaxCalls
    /\ \E payment_data \in PaymentData :
        LET e == PaymentValidator_validate(payment_data) IN
        Call("PaymentValidator.validate", Nothing, payment_data, None,
             IF e = NoError THEN Returned(World, NoResponse, <<>>, NotDelegated)
             ELSE Raised(World, e, <<>>, NotDelegated))

Next ==
    \/ ProcessTransaction
    \/ ProcessRefund
    \/ SetupRecurring

Spec == Init /\ [][Next]_vars

\* The validators alone, over the whole data model.
NextValidators ==
    \/ ValidateCustomer
    \/ ValidatePayment

SpecValidators == Init /\ [][NextValidators]_vars

\* s repeated n times.
RECURSIVE Repeat(_, _)
Repeat(s, n) ==
    IF n = 0 THEN ""
    ELSE IF n % 2 = 1 THEN s \o Repeat(s, n - 1)
    ELSE LET half == Repeat(s, n \div 2) IN half \o half

\* A customer name as long as the file buffer: CustomerData puts no limit on
\* the name and the validator only asks that it is not empty.
LongName == Repeat("x", BufferSize)

\* The records two concurrent callers hand to the logger: transactions of a
\* short-named and of a long-named customer, succeeded and failed, and a
\* refund.
LoggedRecords ==
    {TransactionRecord(Customer(name, "e@mail.com", None, None),
                       [amount |-> 500, source |-> "tok_valid"], response) :
        name \in {"John Doe", LongName},
        response \in {PaymentResponse("success", 500, Uuid(1),
                                      "Offline payment success"),
                      PaymentResponse("failed", 500, None,
                                      "Your card was declined.")}}
    \cup {RefundRecord("ch_1", PaymentResponse("succeeded", 500, "re_1",
                                               "Refund successful"))}

\* Thread t enters the "with open(...)" block of log_transaction or log_refund.
Open(t) ==
    /\ writers[t].pc = "idle"
    /\ \E record \in LoggedRecords :
           writers' = [writers EXCEPT ![t] = open(record)]
    /\ UNCHANGED <<svc, log, stripe, notified, uuids, last, ncalls>>

\* Thread t makes its next log_file.write call.
Write(t) ==
    /\ writers[t].pc = "open"
    /\ writers[t].written < Len(writers[t].record)
    /\ LET w == write(writers[t], log) IN
        /\ writers' = [writers EXCEPT ![t] = w.f]
        /\ log' = w.file
    /\ UNCHANGED <<svc, stripe, notified, uuids, last, ncalls>>

\* Thread t leaves the "with" block after its last write call.
Close(t) ==
    /\ writers[t].pc = "open"
    /\ writers[t].written = Len(writers[t].record)
    /\ LET c == close(writers[t], log) IN
        /\ writers' = [writers EXCEPT ![t] = c.f]
        /\ log' = c.file
    /\ UNCHANGED <<svc, stripe, notified, uuids, last, ncalls>>

\* Two threads, each logging one record through its own file object; the
\* scheduler may switch between them after any statement.
NextConcurrent ==
    \E t \in Threads :
        \/ Open(t)
        \/ Write(t)
        \/ Close(t)

\* The logger is shared by the service instances (main.py:336, 344, 353);
\* the instance named here is the offline composition of main.py:348-354.
InitConcurrent ==
    /\ Init
    /\ svc = [payment_processor |-> "offline", notifier |-> "sms",
              recurring_processor |-> None, refund_processor |-> None]

SpecConcurrent == InitConcurrent /\ [][NextConcurrent]_vars

(***************************************************************************)
(* Properties                                                              *)
(***************************************************************************)
Contains(seq, x) == \E i \in DOMAIN seq : seq[i] = x
IsPrefix(a, b) == Len(a) <= Len(b) /\ SubSeq(b, 1, Len(a)) = a
\* The lines the last call appended to the log.
Appended == SubSeq(log, Len(last.pre.log) + 1, Len(log))
\* The last call left the backend, the notifications and the log as they were.
NoSideEffects ==
    /\ stripe = last.pre.stripe
    /\ uuids = last.pre.uuids
    /\ notified = last.pre.notified
    /\ log = last.pre.log

\* Validity as the data model states it (name, a contact channel; a source
\* and a positive amount).
ValidCustomer(c) ==
    /\ c.name # None /\ c.name # ""
    /\ c.contact_info # Nothing
    /\ \/ (c.contact_info.email # None /\ c.contact_info.email # "")
       \/ (c.contact_info.phone # None /\ c.contact_info.phone # "")
ValidPayment(p) == p.source # None /\ p.source # "" /\ p.amount > 0

\* The error kinds of the specification, as the code raises them.
IsValidationError(e) ==
    /\ e # NoError
    /\ e.type = "ValueError"
    /\ e.msg \in {"Invalid customer data: missing name",
                  "Invalid customer data: missing contact info",
                  "Invalid customer data: missing email and phone",
                  "Invalid payment data: missing source",
                  "Invalid payment data: amount must be positive"}
IsCapabilityError(e) ==
    /\ e # NoError
    /\ e.type = "Exception"
    /\ e.msg \in {"This processor does not suppot refunds",
                  "This processor does not suppot recurring"}
IsConfigurationError(e) ==
    e = Raise("ValueError", "Email required for subscriptions")

\* C1: process_transaction on an invalid customer or payment ends with a
\* ValidationError, and at that moment the processor has not been called, no
\* notification has been sent and no line has been appended to the log.
C1_FailFast ==
    (/\ last.op = "process_transaction"
     /\ ~(ValidCustomer(last.customer) /\ ValidPayment(last.payment)))
    => /\ last.outcome = "raised"
       /\ IsValidationError(last.error)
       /\ last.processor = NotDelegated
       /\ \A i \in DOMAIN last.steps :
              last.steps[i] \in {"customer_validator.validate",
                                 "payment_validator.validate"}
       /\ NoSideEffects

\* A charge of amount 0 refused on a service that has charged, notified and
\* logged before.
C1_Witness ==
    /\ last.op = "process_transaction"
    /\ ValidCustomer(last.customer)
    /\ last.payment = [amount |-> 0, source |-> "tok_valid"]
    /\ last.outcome = "raised"
    /\ Len(log) > 0 /\ Len(notified) > 0

\* C2: CustomerValidator.validate fails with a ValidationError exactly for the
\* customers with an empty or missing name, a missing contact_info, or neither
\* an email nor a phone, and returns for every other customer.
C2_CustomerValidator ==
    last.op = "CustomerValidator.validate"
    => IF ValidCustomer(last.customer)
       THEN last.outcome = "returned" /\ last.error = NoError
       ELSE last.outcome = "raised" /\ IsValidationError(last.error)

\* A customer with a name and no contact_info is refused.
C2_Witness ==
    /\ last.op = "CustomerValidator.validate"
    /\ last.customer.name = "Ann"
    /\ last.customer.contact_info = Nothing
    /\ last.outcome = "raised"

\* C3: PaymentValidator.validate fails with a ValidationError exactly for the
\* payments with an empty or missing source or an amount <= 0, and returns for
\* every other payment.
C3_PaymentValidator ==
    last.op = "PaymentValidator.validate"
    => IF ValidPayment(last.payment)
       THEN last.outcome = "returned" /\ last.error = NoError
       ELSE last.outcome = "raised" /\ IsValidationError(last.error)

\* A negative amount with a source is refused.
C3_Witness ==
    /\ last.op = "PaymentValidator.validate"
    /\ last.payment.amount < 0
    /\ last.payment.source = "tok_valid"
    /\ last.outcome = "raised"

\* C4: on a service without the refund capability process_refund, and on one
\* without the recurring capability setup_recurring, ends with a
\* CapabilityError; no backend operation is invoked and no log line written,
\* whatever calls came before.
C4_Capability ==
    /\ (last.op = "process_refund" /\ svc.refund_processor = None)
       => /\ last.outcome = "raised"
          /\ IsCapabilityError(last.error)
          /\ last.steps = <<>>
          /\ last.processor = NotDelegated
          /\ NoSideEffects
    /\ (last.op = "setup_recurring" /\ svc.recurring_processor = None)
       => /\ last.outcome = "raised"
          /\ IsCapabilityError(last.error)
          /\ last.steps = <<>>
          /\ last.processor = NotDelegated
          /\ NoSideEffects

\* The refund of a charge the backend holds, refused for want of the
\* capability.
C4_Witness ==
    /\ last.op = "process_refund"
    /\ svc.refund_processor = None
    /\ last.outcome = "raised"
    /\ Len(stripe.charges) > 0
    /\ last.transaction_id = stripe.charges[1].id
    /\ Len(log) > 0

\* C5: with valid inputs and the offline processor, process_transaction
\* returns status "success", the payment's amount, a non-empty transaction_id
\* and the message "Offline payment success", and appends exactly one
\* transaction record, "<name> paid <amount>" first.  (The case in which the
\* notifier raises is C8's.)
C5_OfflineSuccess ==
    (/\ last.op = "process_transaction"
     /\ svc.payment_processor = "offline"
     /\ ValidCustomer(last.customer) /\ ValidPayment(last.payment)
     /\ ~Contains(last.steps, "NotifierError"))
    => /\ last.outcome = "returned"
       /\ last.response.status = "success"
       /\ last.response.amount = last.payment.amount
       /\ last.response.transaction_id \notin {None, ""}
       /\ last.response.message = "Offline payment success"
       /\ IsPrefix(last.pre.log, log)
       /\ Appended =
              <<last.customer.name \o " paid " \o ToString(last.payment.amount),
                "Payment status: success",
                "Transaction ID: " \o last.response.transaction_id,
                "Message: Offline payment success">>

\* The scenario of the specification: John Doe pays 500 through the stub.
C5_Witness ==
    /\ last.op = "process_transaction"
    /\ svc.payment_processor = "offline"
    /\ last.outcome = "returned"
    /\ last.response.amount = 500
    /\ Len(log) >= 4
    /\ log[Len(log) - 3] = "John Doe paid 500"

\* The failure details a backend rejection carries.
Details == StripeErrors \cup {"No such charge."}

\* C6: whenever the backend rejects a charge, a refund or a step of recurring
\* setup, the live processor's operation returns a PaymentResponse with
\* status "failed", the failure detail as message and no transaction_id; the
\* rejection is never let out as an error.
C6_BackendRejection ==
    \A d \in Details :
        Contains(last.steps, StripeError(d))
        => /\ last.processor # NotDelegated
           /\ last.processor.error = NoError
           /\ last.processor.response # NoResponse
           /\ last.processor.response.status = "failed"
           /\ last.processor.response.message = d
           /\ last.processor.response.transaction_id = None
           /\ (last.outcome = "raised" => last.error.type # "StripeError")

\* The subscription is rejected after the payment method was attached:
\* setup_recurring returns the failed response.
C6_Witness ==
    /\ last.op = "setup_recurring"
    /\ Contains(last.steps, "stripe.Subscription.create")
    /\ Contains(last.steps, StripeError("Your card was declined."))
    /\ last.outcome = "returned"
    /\ last.response.status = "failed"
    /\ Len(stripe.attached) > Len(last.pre.stripe.attached)

\* C7: recurring setup for a customer with no customer_id and no email ends
\* with a ConfigurationError, not a "failed" response; no backend customer was
\* created, no payment method attached, no subscription created; through
\* PaymentService.setup_recurring the error reaches the caller and no log
\* record is written.
C7_EmailRequired ==
    (/\ last.op = "setup_recurring"
     /\ svc.recurring_processor # None
     /\ last.customer.customer_id \in {None, ""}
     /\ last.customer.contact_info # Nothing
     /\ last.customer.contact_info.email \in {None, ""})
    => /\ last.outcome = "raised"
       /\ IsConfigurationError(last.error)
       /\ last.response = NoResponse
       /\ last.processor = Delegate(NoResponse, last.error)
       /\ last.steps = <<"recurring_processor.setup_recurring_payment">>
       /\ stripe.customers = last.pre.stripe.customers
       /\ stripe.attached = last.pre.stripe.attached
       /\ stripe.defaults = last.pre.stripe.defaults
       /\ stripe.subscriptions = last.pre.stripe.subscriptions
       /\ NoSideEffects

\* A customer reachable by phone only asks for a subscription, on a service
\* that has set one up and logged it before.
C7_Witness ==
    /\ last.op = "setup_recurring"
    /\ last.customer = Customer("John Doe", None, "555", None)
    /\ last.payment = [amount |-> 500, source |-> "tok_valid"]
    /\ last.outcome = "raised"
    /\ Len(stripe.subscriptions) > 0
    /\ Len(log) > 0

\* C8: in process_transaction, when the charge has been made and the notifier
\* then fails, the outcome is still appended to the log and the processor's
\* response is still returned.
C8_NotifierNonFatal ==
    (/\ last.op = "process_transaction"
     /\ Contains(last.steps, "payment_processor.process_transaction")
     /\ Contains(last.steps, "NotifierError"))
    => /\ last.outcome = "returned"
       /\ last.response = last.processor.response
       /\ Appended = TransactionRecord(last.customer, last.payment,
                                       last.processor.response)

\* C9, as claimed: setup_recurring validates the customer and the payment
\* first; an invalid customer or payment ends with a ValidationError and the
\* recurring processor is never invoked.
C9_ValidatesFirst ==
    (/\ last.op = "setup_recurring"
     /\ svc.recurring_processor # None
     /\ ~(ValidCustomer(last.customer) /\ ValidPayment(last.payment)))
    => /\ last.outcome = "raised"
       /\ IsValidationError(last.error)
       /\ ~Contains(last.steps, "recurring_processor.setup_recurring_payment")

\* C9, amended: on a service with the recurring capability setup_recurring
\* runs no validator; its first step is the delegation to the recurring
\* processor, for valid and invalid input alike; it never ends with a
\* ValidationError, and when the processor returns a response the
\* transaction record is logged and the response returned.
C9_DelegatesUnvalidated ==
    (last.op = "setup_recurring" /\ svc.recurring_processor # None)
    => /\ last.steps # <<>>
       /\ last.steps[1] = "recurring_processor.setup_recurring_payment"
       /\ ~Contains(last.steps, "customer_validator.validate")
       /\ ~Contains(last.steps, "payment_validator.validate")
       /\ ~IsValidationError(last.error)
       /\ last.processor # NotDelegated
       /\ last.processor.response # NoResponse
          => /\ last.outcome = "returned"
             /\ last.response = last.processor.response
             /\ last.steps[Len(last.steps)] = "logger.log_transaction"
             /\ log = last.pre.log
                      \o TransactionRecord(last.customer, last.payment,
                                           last.response)

\* A subscription set up for a customer without a name and a payment without
\* an amount.
C9_Witness ==
    /\ last.op = "setup_recurring"
    /\ last.customer = Customer("", "e@mail.com", None, None)
    /\ last.payment = [amount |-> 0, source |-> "tok_valid"]
    /\ last.outcome = "returned"
    /\ last.response.status = "active"
    /\ Len(stripe.subscriptions) > Len(last.pre.stripe.subscriptions)

\* Two consecutive process_transaction calls with the same valid inputs.
SameChargeTwice ==
    /\ ncalls' = ncalls + 1
    /\ last.op = "process_transaction"
    /\ last'.op = "process_transaction"
    /\ last'.customer = last.customer
    /\ last'.payment = last.payment
    /\ ValidCustomer(last.customer) /\ ValidPayment(last.payment)

\* The charge of a call reached the processor, apart from any earlier one:
\* on Stripe an accepted charge is a new object of the backend under the id
\* the response carries, offline a new uuid was drawn.
ChargedAnew(call, processor, before, after, drawn_before, drawn_after) ==
    /\ Contains(call.steps, "payment_processor.process_transaction")
    /\ call.processor # NotDelegated
    /\ IF processor = "stripe"
       THEN /\ Contains(call.steps, "stripe.Charge.create")
            /\ call.processor.response.status # "failed"
               => /\ Len(after.charges) = Len(before.charges) + 1
                  /\ after.charges[Len(after.charges)].id
                         = call.processor.response.transaction_id
                  /\ \A i \in 1 .. Len(before.charges) :
                         before.charges[i].id
                             # call.processor.response.transaction_id
       ELSE drawn_after = drawn_before + 1

\* C10: process_transaction does no deduplication: two calls with identical
\* valid inputs each charge at the processor, the transaction ids they get
\* are distinct, and each call that returns appends its own record.
C10_NoDedup ==
    [][SameChargeTwice
       => /\ ChargedAnew(last, svc.payment_processor, last.pre.stripe, stripe,
                         last.pre.uuids, uuids)
          /\ ChargedAnew(last', svc.payment_processor, stripe, stripe',
                         uuids, uuids')
          /\ (/\ last.processor.response.transaction_id \notin {None, ""}
              /\ last'.processor.response.transaction_id \notin {None, ""})
             => last'.processor.response.transaction_id
                    # last.processor.response.transaction_id
          /\ last.outcome = "returned"
             => log = last.pre.log
                      \o TransactionRecord(last.customer, last.payment,
                                           last.response)
          /\ last'.outcome = "returned"
             => log' = log \o TransactionRecord(last'.customer, last'.payment,
                                                last'.response)
      ]_vars

\* The same charge made twice on Stripe: two charges under two ids, two
\* records in the log.
C10_Witness ==
    /\ ncalls = 2
    /\ last.op = "process_transaction"
    /\ last.outcome = "returned"
    /\ Len(stripe.charges) = 2
    /\ stripe.charges[1].id # stripe.charges[2].id
    /\ stripe.charges[1].amount = stripe.charges[2].amount
    /\ stripe.charges[1].source = stripe.charges[2].source
    /\ stripe.charges[1].description = stripe.charges[2].description
    /\ Len(log) = 8
    /\ log[1] = log[5]
    /\ log[3] # log[7]


\* How often a step occurs among the steps of a call.
Count(seq, x) == Cardinality({i \in DOMAIN seq : seq[i] = x})

\* C11: no retries: a process_transaction call invokes the processor's charge
\* at most once, a process_refund or setup_recurring call its backend
\* operation (and each API call of it) at most once; a "failed" response is
\* returned as it is, after one attempt.
C11_NoRetries ==
    /\ last.op = "process_transaction"
       => /\ Count(last.steps, "payment_processor.process_transaction") <= 1
          /\ Count(last.steps, "stripe.Charge.create") <= 1
          /\ Count(last.steps, "uuid.uuid4") <= 1
          /\ Len(stripe.charges) <= Len(last.pre.stripe.charges) + 1
          /\ uuids <= last.pre.uuids + 1
    /\ last.op = "process_refund"
       => /\ Count(last.steps, "refund_processor.refund_payment") <= 1
          /\ Count(last.steps, "stripe.Refund.create") <= 1
          /\ Len(stripe.refunds) <= Len(last.pre.stripe.refunds) + 1
    /\ last.op = "setup_recurring"
       => /\ Count(last.steps, "recurring_processor.setup_recurring_payment") <= 1
          /\ \A api \in RecurringApis : Count(last.steps, api) <= 1
          /\ Len(stripe.subscriptions) <= Len(last.pre.stripe.subscriptions) + 1
    /\ (/\ last.op \in {"process_transaction", "process_refund", "setup_recurring"}
        /\ last.processor # NotDelegated
        /\ last.processor.response # NoResponse
        /\ last.processor.response.status = "failed")
       => /\ \E d \in Details : Count(last.steps, StripeError(d)) = 1
          /\ stripe.charges = last.pre.stripe.charges
          /\ stripe.refunds = last.pre.stripe.refunds
          /\ stripe.subscriptions = last.pre.stripe.subscriptions
          /\ last.outcome = "returned" => last.response.status = "failed"

\* A charge Stripe declined: attempted once, returned as a failed response.
C11_Witness ==
    /\ last.op = "process_transaction"
    /\ svc.payment_processor = "stripe"
    /\ last.outcome = "returned"
    /\ last.response.status = "failed"
    /\ Count(last.steps, "stripe.Charge.create") = 1
    /\ stripe.charges = last.pre.stripe.charges


\* The steps of PaymentService.process_transaction, in the order of its body.
Pipeline ==
    <<"customer_validator.validate", "payment_validator.validate",
      "payment_processor.process_transaction", "notifier.send_confirmation",
      "logger.log_transaction">>

IsPipelineStep(step) == \E i \in DOMAIN Pipeline : Pipeline[i] = step

\* The steps the service itself took, without those inside the processor.
ServiceSteps(steps) == SelectSeq(steps, IsPipelineStep)

\* C12: one process_transaction call takes its steps in the order validate
\* customer, validate payment, charge, notify, log, return; each at most once
\* and only after every earlier step completed without error.  With both
\* inputs invalid the customer failure is the one reported; nothing is
\* notified before the charge and nothing is logged before the notification.
C12_StepOrder ==
    last.op = "process_transaction"
    => LET taken == ServiceSteps(last.steps)
           e1 == CustomerValidator_validate(last.customer)
           e2 == PaymentValidator_validate(last.payment) IN
       /\ Len(taken) >= 1
       /\ IsPrefix(taken, Pipeline)
       /\ Len(taken) >= 2 <=> e1 = NoError
       /\ Len(taken) >= 3 <=> (e1 = NoError /\ e2 = NoError)
       /\ Len(taken) >= 3 => Len(taken) >= 4
       /\ Len(taken) = 5 <=> (Len(taken) >= 4 /\ ~Contains(last.steps, "NotifierError"))
       /\ e1 # NoError => (last.outcome = "raised" /\ last.error = e1)
       /\ (e1 = NoError /\ e2 # NoError)
          => (last.outcome = "raised" /\ last.error = e2)
       /\ last.outcome = "returned" <=> taken = Pipeline
       /\ (last.processor # NotDelegated
           \/ stripe # last.pre.stripe \/ uuids # last.pre.uuids)
          <=> Len(taken) >= 3
       /\ notified # last.pre.notified => Len(taken) >= 4
       /\ log # last.pre.log
          => (Len(taken) = 5 /\ Len(notified) = Len(last.pre.notified) + 1)

\* A call that went through the whole pipeline and returned.
C12_Witness ==
    /\ last.op = "process_transaction"
    /\ last.outcome = "returned"
    /\ ServiceSteps(last.steps) = Pipeline
    /\ Len(notified) = Len(last.pre.notified) + 1
    /\ log # last.pre.log

\* A call with both inputs invalid, which reported the customer failure.
C12_BothInvalid ==
    /\ last.op = "process_transaction"
    /\ CustomerValidator_validate(last.customer) # NoError
    /\ PaymentValidator_validate(last.payment) # NoError
    /\ last.steps = <<"customer_validator.validate">>


\* The processor of the last call yielded a response with status "failed".
ProcessorFailed ==
    /\ last.processor # NotDelegated
    /\ last.processor.response # NoResponse
    /\ last.processor.response.status = "failed"

\* C13: a backend failure still completes the pipeline: when the processor
\* returns a "failed" response for valid inputs, process_transaction still
\* sends the notification, appends a record with "Payment status: failed" and
\* no "Transaction ID" line, and returns the failed response without raising
\* (the notifier having dispatched without an error of its own).
C13_FailedCompletes ==
    (/\ last.op = "process_transaction"
     /\ ProcessorFailed
     /\ ~Contains(last.steps, "NotifierError"))
    => /\ ValidCustomer(last.customer) /\ ValidPayment(last.payment)
       /\ last.outcome = "returned"
       /\ last.error = NoError
       /\ last.response = last.processor.response
       /\ last.response.status = "failed"
       /\ Len(notified) = Len(last.pre.notified) + 1
       /\ IsPrefix(last.pre.notified, notified)
       /\ IsPrefix(last.pre.log, log)
       /\ \E d \in Details :
              Appended = <<last.customer.name \o " paid "
                               \o ToString(last.payment.amount),
                           "Payment status: failed",
                           "Message: " \o d>>
       /\ \A id \in {None, ""} \cup {StripeId("ch_", n) : n \in 0 .. MaxCalls + 1} :
              ~Contains(Appended, "Transaction ID: " \o id)

\* A declined charge that was notified, logged and returned.
C13_Witness ==
    /\ last.op = "process_transaction"
    /\ ProcessorFailed
    /\ last.outcome = "returned"
    /\ Len(notified) = Len(last.pre.notified) + 1
    /\ Len(Appended) = 3
    /\ Appended[2] = "Payment status: failed"


\* C14: the service surfaces the backend's outcome unchanged: for
\* process_transaction, process_refund and setup_recurring the PaymentResponse
\* returned is exactly the one the delegate produced, and the status and
\* message written to the log are those of that response.
C14_OutcomeUnchanged ==
    (/\ last.op \in {"process_transaction", "process_refund", "setup_recurring"}
     /\ last.outcome = "returned")
    => /\ last.processor # NotDelegated
       /\ last.processor.error = NoError
       /\ last.response = last.processor.response
       /\ Len(Appended) \in {3, 4}
       /\ Appended[2] = (IF last.op = "process_refund"
                         THEN "Refund status: " ELSE "Payment status: ")
                            \o last.processor.response.status
       /\ Appended[Len(Appended)] = "Message: " \o last.processor.response.message
       /\ Len(Appended) = 4
          => Appended[3] = "Transaction ID: "
                              \o last.processor.response.transaction_id

\* A rejected recurring setup, returned and logged as the backend reported it.
C14_Witness ==
    /\ last.op = "setup_recurring"
    /\ last.outcome = "returned"
    /\ last.response.status = "failed"
    /\ last.response = last.processor.response
    /\ Appended[2] = "Payment status: failed"
    /\ Appended[Len(Appended)] = "Message: " \o last.response.message


\* The backend calls of setup_recurring_payment, in the order of its body, for
\* a customer with or without a customer_id.
RecurringOrder(customer_data) ==
    <<IF Truthy(customer_data.customer_id)
      THEN "stripe.Customer.retrieve" ELSE "stripe.Customer.create",
      "stripe.PaymentMethod.retrieve", "stripe.PaymentMethod.attach",
      "stripe.Customer.modify", "stripe.Subscription.create">>

IsRecurringApi(step) == step \in RecurringApis

\* The backend calls among the steps of a call.
ApiSteps(steps) == SelectSeq(steps, IsRecurringApi)

\* The backend raised a StripeError at step i of the last call.
IsRejection(i) == \E d \in Details : last.steps[i] = StripeError(d)

\* C15: setup_recurring_payment takes its backend steps in the order
\* resolve-or-create customer, attach payment method, set default payment
\* method, create subscription.  The subscription is created only after the
\* attach and the default both succeeded; a customer with a customer_id is
\* retrieved and never created; a rejection at any step means that no later
\* step is attempted and the response is "failed".
C15_RecurringOrder ==
    (last.op = "setup_recurring" /\ last.processor # NotDelegated)
    => LET apis == ApiSteps(last.steps)
           pre == last.pre.stripe IN
       /\ IsPrefix(apis, RecurringOrder(last.customer))
       /\ Truthy(last.customer.customer_id)
          => /\ Len(apis) >= 1
             /\ apis[1] = "stripe.Customer.retrieve"
             /\ ~Contains(last.steps, "stripe.Customer.create")
             /\ stripe.customers = pre.customers
       /\ (Contains(last.steps, "stripe.Subscription.create")
           \/ stripe.subscriptions # pre.subscriptions)
          => /\ Len(apis) = 5
             /\ Len(stripe.attached) = Len(pre.attached) + 1
             /\ Len(stripe.defaults) = Len(pre.defaults) + 1
             /\ stripe.attached[Len(stripe.attached)].payment_method
                    = last.payment.source
             /\ stripe.defaults[Len(stripe.defaults)].default_payment_method
                    = last.payment.source
             /\ stripe.attached[Len(stripe.attached)].customer
                    = stripe.defaults[Len(stripe.defaults)].customer
       /\ stripe.defaults # pre.defaults
          => Len(stripe.attached) = Len(pre.attached) + 1
       /\ \A i \in DOMAIN last.steps :
              IsRejection(i)
              => /\ \A j \in DOMAIN last.steps :
                        j > i => ~IsRecurringApi(last.steps[j])
                 /\ i > 1 /\ IsRecurringApi(last.steps[i - 1])
                 /\ last.processor.response # NoResponse
                 /\ last.processor.response.status = "failed"
                 /\ last.outcome = "returned"
                 /\ last.response.status = "failed"
                 /\ stripe.subscriptions = pre.subscriptions
                 /\ last.steps[i - 1] # "stripe.Subscription.create"
                    => stripe.defaults = pre.defaults
                 /\ last.steps[i - 1] \in {"stripe.Customer.retrieve",
                                           "stripe.Customer.create",
                                           "stripe.PaymentMethod.retrieve"}
                    => stripe.attached = pre.attached
       /\ (Len(apis) = 5 /\ \A i \in DOMAIN last.steps : ~IsRejection(i))
          => /\ Len(stripe.subscriptions) = Len(pre.subscriptions) + 1
             /\ last.response.status = "active"

\* A subscription set up for a customer who came with a customer_id.
C15_Witness ==
    /\ last.op = "setup_recurring"
    /\ Truthy(last.customer.customer_id)
    /\ ApiSteps(last.steps) = RecurringOrder(last.customer)
    /\ Len(stripe.subscriptions) = Len(last.pre.stripe.subscriptions) + 1
    /\ stripe.customers = last.pre.stripe.customers

\* A setup rejected when the default payment method was set: nothing later.
C15_RejectedMidway ==
    /\ last.op = "setup_recurring"
    /\ last.outcome = "returned"
    /\ last.response.status = "failed"
    /\ Len(ApiSteps(last.steps)) = 4
    /\ stripe.subscriptions = last.pre.stripe.subscriptions


\* C16: with a refund capability configured, process_refund delegates to the
\* capability's refund_payment exactly once with the given transaction id,
\* appends exactly one refund record whether the refund succeeded or failed,
\* sends no customer notification, and returns the refund response.
C16_Refund ==
    (last.op = "process_refund" /\ Truthy(svc.refund_processor))
    => /\ Count(last.steps, "refund_processor.refund_payment") = 1
       /\ Count(last.steps, "stripe.Refund.create") = 1
       /\ last.outcome = "returned"
       /\ last.processor # NotDelegated
       /\ last.response = last.processor.response
       /\ last.response.status \in {"succeeded", "failed"}
       /\ last.response.status = "succeeded"
          => /\ Len(stripe.refunds) = Len(last.pre.stripe.refunds) + 1
             /\ stripe.refunds[Len(stripe.refunds)].charge = last.transaction_id
             /\ stripe.refunds[Len(stripe.refunds)].id = last.response.transaction_id
       /\ last.response.status = "failed"
          => stripe.refunds = last.pre.stripe.refunds
       /\ IsPrefix(last.pre.log, log)
       /\ Appended = <<"Refund processed for transaction " \o last.transaction_id,
                       "Refund status: " \o last.response.status,
                       "Message: " \o last.response.message>>
       /\ Count(last.steps, "logger.log_refund") = 1
       /\ notified = last.pre.notified
       /\ ~Contains(last.steps, "notifier.send_confirmation")

\* A refund the backend refused: logged once, returned, nobody notified.
C16_Witness ==
    /\ last.op = "process_refund"
    /\ last.outcome = "returned"
    /\ last.response.status = "failed"
    /\ Len(Appended) = 3
    /\ Appended[2] = "Refund status: failed"
    /\ notified = last.pre.notified

\* A refund of a charge made before: logged once, returned, nobody notified.
C16_Succeeded ==
    /\ last.op = "process_refund"
    /\ last.outcome = "returned"
    /\ last.response.status = "succeeded"
    /\ Len(Appended) = 3
    /\ Len(stripe.refunds) = Len(last.pre.stripe.refunds) + 1


\* The one record a call that returned is to leave in the log.
RecordOf(call) ==
    IF call.op = "process_refund"
    THEN RefundRecord(call.transaction_id, call.response)
    ELSE TransactionRecord(call.customer, call.payment, call.response)

\* C17: the log is append-only across any sequence of service operations:
\* what it held before an operation is an unchanged prefix of what it holds
\* after; an operation that ends in a validation, capability or configuration
\* error (or any other exception) appends nothing; every operation that
\* returns appends exactly one record.
C17_AppendOnly ==
    [][ncalls' = ncalls + 1
       => /\ IsPrefix(log, log')
          /\ last'.pre.log = log
          /\ last'.outcome \in {"raised", "returned"}
          /\ last'.outcome = "raised"
             => /\ log' = log
                /\ last'.error # NoError
          /\ (IsValidationError(last'.error) \/ IsCapabilityError(last'.error)
                  \/ IsConfigurationError(last'.error))
             => log' = log
          /\ last'.outcome = "returned"
             => /\ log' = log \o RecordOf(last')
                /\ Len(log') - Len(log) \in {3, 4}
                /\ Count(SubSeq(log', Len(log) + 1, Len(log')),
                         "Message: " \o last'.response.message) = 1]_vars

\* A second operation that returned, its record after the first one's.
C17_Witness ==
    /\ ncalls = 2
    /\ last.outcome = "returned"
    /\ last.pre.log # <<>>
    /\ IsPrefix(last.pre.log, log)
    /\ Appended = RecordOf(last)

\* A second operation that a capability error ended: the log as it was.
C17_ErrorAppendsNothing ==
    /\ ncalls = 2
    /\ IsCapabilityError(last.error)
    /\ last.pre.log # <<>>
    /\ log = last.pre.log


\* Every thread has logged its record and closed the file.
AllClosed == \A t \in Threads : writers[t].pc = "closed"

\* C18: the log sink supports concurrent appends: when two threads log at the
\* same time, the lines of each record appear contiguously in the log, never
\* interleaved with the lines of the other record, and no record is lost:
\* the log is one record followed by the other.
C18_ConcurrentAppends ==
    AllClosed
    => \E t \in Threads, u \in Threads :
           /\ t # u
           /\ log = writers[t].record \o writers[u].record

\* No line is lost or duplicated, whatever the interleaving.
C18_NoLineLost ==
    AllClosed
    => /\ Len(log) = Len(writers["t1"].record) + Len(writers["t2"].record)
       /\ \A t \in Threads : \A i \in DOMAIN writers[t].record :
              Contains(log, writers[t].record[i])

\* Records that fit the buffer reach the file in one append each.
C18_BufferedRecordsContiguous ==
    (AllClosed /\ \A t \in Threads : Bytes(writers[t].record) <= BufferSize)
    => \E t \in Threads, u \in Threads :
           /\ t # u
           /\ log = writers[t].record \o writers[u].record

\* Two records in the log with the lines of one inside the other.
C18_Interleaved ==
    /\ AllClosed
    /\ \A t \in Threads, u \in Threads :
           log # writers[t].record \o writers[u].record

====
